---- MODULE Spec2Model ----
(***************************************************************************)
(* drone-gemini-cli-plugin: the subprocess-execution and output-           *)
(* interpretation pipeline (package plugin).                               *)
(*                                                                         *)
(* Go strings whose characters matter (subprocess output, credentials,     *)
(* paths) are sequences of one-character or one-document tokens; Go        *)
(* strings of which only emptiness and equality matter are TLA+ strings.   *)
(* A Go pointer is a sequence of length 0 (nil) or 1 (the pointee).        *)
(***************************************************************************)
EXTENDS Naturals, Integers, Sequences, FiniteSets, TLC

VARIABLES
    config,      \* the Config of this invocation (Plugin.config)
    pc,          \* position of the running operation
    baseEnv,     \* os.Environ(): the ambient environment of the plugin
    authMode,    \* last value returned by Config.DetectAuthMode
    env,         \* cmd.Env: result of CLIExecutor.buildEnv
    tmpFiles,    \* contents of the temporary files written by buildEnv
    args,        \* argument vector built by CLIExecutor.buildArgs
    input,       \* the text handed to an OutputParser entry point
    parsed,      \* what the entry point returned
    probe,       \* outcome of the gemini --version probe
    stdinInput,  \* text piped to the subprocess
    proc,        \* the gemini subprocess of the real invocation
    ctxErr,      \* ctx.Err() of the deadline context
    stdout,      \* captured standard output
    stderr,      \* captured standard error
    exitCode,    \* exit status of the subprocess once it has ended
    runErr,      \* the error cmd.Run returned
    parserRuns,  \* the parser entry points Execute has called, in order
    result,      \* Execute's local result (line 77), Nil before it is made
    returned,    \* the *ExecutionResult Execute returned
    err,         \* the error returned by the operation
    modelName,   \* the model identifier handed to calculateModelCost
    tokens,      \* the TokenStats handed to calculateModelCost
    pricing,     \* calculateModelCost's local pricing, Nil before it is set
    cost         \* the cost calculateModelCost returned, Nil before the call

vars == <<config, pc, baseEnv, authMode, env, tmpFiles, args, input, parsed,
          probe, stdinInput, proc, ctxErr, stdout, stderr, exitCode, runErr,
          parserRuns, result, returned, err, modelName, tokens, pricing, cost>>

\* the variables of a cost estimate
costVars == <<modelName, tokens, pricing, cost>>

----------------------------------------------------------------------------
(* Text: strings.TrimSpace, strings.HasPrefix, strings.Split               *)

\* unicode.IsSpace on the characters of the model's alphabet
IsSpace(c) == c \in {" ", "\n", "\t"}

RECURSIVE TrimLeft(_)
TrimLeft(s) ==
    IF s = <<>> THEN <<>>
    ELSE IF IsSpace(Head(s)) THEN TrimLeft(Tail(s))
    ELSE s

RECURSIVE TrimRight(_)
TrimRight(s) ==
    IF s = <<>> THEN <<>>
    ELSE IF IsSpace(s[Len(s)]) THEN TrimRight(SubSeq(s, 1, Len(s) - 1))
    ELSE s

\* strings.TrimSpace
TrimSpace(s) == TrimRight(TrimLeft(s))

\* strings.HasPrefix(s, c) for a one-character prefix
HasPrefix(s, c) == s # <<>> /\ Head(s) = c

\* a Go string of which only the identity matters, as a text
T(s) == IF s = "" THEN <<>> ELSE <<s>>

Nil == <<>>

----------------------------------------------------------------------------
(* config.go                                                               *)

AuthModeNone == "AuthModeNone"
AuthModeGeminiAPIKey == "AuthModeGeminiAPIKey"
AuthModeVertexAI == "AuthModeVertexAI"

\* a DetectAuthMode that tests the API key before the Vertex combinations
DetectAuthMode_KeyFirst(c) ==
    IF c.APIKey # "" THEN AuthModeGeminiAPIKey
    ELSE IF c.GCPCredentials # <<>> /\ c.GCPProject # "" THEN AuthModeVertexAI
    ELSE AuthModeNone

\* a DetectAuthMode whose service-account test forgets the project
DetectAuthMode_CredsAlone(c) ==
    IF c.APIKey # "" /\ c.GCPProject # "" THEN AuthModeVertexAI
    ELSE IF c.GCPCredentials # <<>> THEN AuthModeVertexAI
    ELSE IF c.APIKey # "" THEN AuthModeGeminiAPIKey
    ELSE AuthModeNone

\* Config.DetectAuthMode
DetectAuthMode(c) ==
    IF c.APIKey # "" /\ c.GCPProject # "" THEN AuthModeVertexAI
    ELSE IF c.GCPCredentials # <<>> /\ c.GCPProject # "" THEN AuthModeVertexAI
    ELSE IF c.APIKey # "" THEN AuthModeGeminiAPIKey
    ELSE AuthModeNone

\* a Validate that accepts every Config
Validate_AcceptAll(c) == "nil"

\* Config.Validate
Validate(c) == IF c.Prompt = "" THEN "ErrPromptRequired" ELSE "nil"

\* the Config fields the pipeline reads, at their envconfig defaults
DefaultConfig ==
    [Prompt |-> "Review this code", Model |-> "gemini-2.5-pro",
     OutputFormat |-> "json", Yolo |-> FALSE, ApprovalMode |-> "",
     IncludeDirs |-> "", Debug |-> FALSE, GitDiff |-> FALSE,
     StdinInput |-> <<>>, APIKey |-> "", GCPProject |-> "",
     GCPLocation |-> "us-central1", GCPCredentials |-> <<>>]

----------------------------------------------------------------------------
(* cli_executor.go: buildEnv                                               *)

EnvVar(name, value) == [name |-> name, value |-> value]

\* filepath.IsAbs on a Unix path
IsAbs(p) == HasPrefix(p, "/")

\* the working directory filepath.Abs joins a relative path to
Cwd == <<"/", "drone", "/", "src">>

\* filepath.Abs when os.Getwd succeeds
Abs(p) == IF IsAbs(p) THEN p ELSE Cwd \o <<"/">> \o p

\* tmpFile.Name() of os.CreateTemp("", "gcp-credentials-*.json")
TmpName == <<"/", "tmp", "/", "gcp-credentials-1.json">>

\* lines 174-193: the path put into GOOGLE_APPLICATION_CREDENTIALS.
\* tmpOk: os.CreateTemp succeeded; absOk: filepath.Abs succeeded.
CredPath(c, tmpOk, absOk) ==
    LET inline == HasPrefix(TrimSpace(c.GCPCredentials), "{")
        p1 == IF inline /\ tmpOk THEN TmpName ELSE c.GCPCredentials
    IN  IF ~IsAbs(p1) /\ absOk THEN Abs(p1) ELSE p1

\* lines 176-182: the temporary files buildEnv writes
TmpWritten(c, tmpOk) ==
    IF /\ DetectAuthMode(c) = AuthModeVertexAI
       /\ c.GCPCredentials # <<>>
       /\ HasPrefix(TrimSpace(c.GCPCredentials), "{")
       /\ tmpOk
    THEN << [name |-> TmpName, content |-> c.GCPCredentials] >>
    ELSE <<>>

\* a buildEnv that sets the location outside Vertex mode as well
EnvOverrides_LocationAlways(c, tmpOk, absOk) ==
    LET mode == DetectAuthMode(c)
        loc == IF c.GCPLocation # ""
               THEN << EnvVar("GOOGLE_CLOUD_LOCATION", T(c.GCPLocation)) >>
               ELSE <<>>
    IN  IF mode = AuthModeGeminiAPIKey
        THEN << EnvVar("GEMINI_API_KEY", T(c.APIKey)) >> \o loc
        ELSE IF mode = AuthModeVertexAI
        THEN << EnvVar("GOOGLE_GENAI_USE_VERTEXAI", <<"true">>),
                EnvVar("GOOGLE_CLOUD_PROJECT", T(c.GCPProject)) >> \o loc
        ELSE loc

\* lines 142-204: the assignments buildEnv appends to os.Environ(), in order
EnvOverrides(c, tmpOk, absOk) ==
    LET mode == DetectAuthMode(c) IN
    IF mode = AuthModeGeminiAPIKey
    THEN << EnvVar("GEMINI_API_KEY", T(c.APIKey)) >>
    ELSE IF mode = AuthModeVertexAI
    THEN << EnvVar("GOOGLE_GENAI_USE_VERTEXAI", <<"true">>) >>
         \o (IF c.GCPProject # ""
             THEN << EnvVar("GOOGLE_CLOUD_PROJECT", T(c.GCPProject)) >>
             ELSE <<>>)
         \o (IF c.GCPLocation # ""
             THEN << EnvVar("GOOGLE_CLOUD_LOCATION", T(c.GCPLocation)) >>
             ELSE <<>>)
         \o (IF c.APIKey # ""
             THEN << EnvVar("GOOGLE_API_KEY", T(c.APIKey)) >>
             ELSE <<>>)
         \o (IF c.GCPCredentials # <<>>
             THEN << EnvVar("GOOGLE_APPLICATION_CREDENTIALS",
                            CredPath(c, tmpOk, absOk)) >>
             ELSE <<>>)
    ELSE <<>>

\* CLIExecutor.buildEnv
buildEnv(c, base, tmpOk, absOk) == base \o EnvOverrides(c, tmpOk, absOk)

----------------------------------------------------------------------------
(* cli_executor.go: buildArgs                                              *)

\* a buildArgs that emits --model without testing Model for emptiness
buildArgs_ModelUnguarded(c, prompt) ==
    <<"--prompt", prompt>>
    \o (IF c.OutputFormat # "" THEN <<"--output-format", c.OutputFormat>> ELSE <<>>)
    \o <<"--model", c.Model>>
    \o (IF c.Yolo THEN <<"--yolo">> ELSE <<>>)
    \o (IF c.ApprovalMode # "" THEN <<"--approval-mode", c.ApprovalMode>> ELSE <<>>)
    \o (IF c.IncludeDirs # "" THEN <<"--include-directories", c.IncludeDirs>> ELSE <<>>)
    \o (IF c.Debug THEN <<"--debug">> ELSE <<>>)

\* a buildArgs that appends the model before the output format
buildArgs_ModelFirst(c, prompt) ==
    <<"--prompt", prompt>>
    \o (IF c.Model # "" THEN <<"--model", c.Model>> ELSE <<>>)
    \o (IF c.OutputFormat # "" THEN <<"--output-format", c.OutputFormat>> ELSE <<>>)
    \o (IF c.Yolo THEN <<"--yolo">> ELSE <<>>)
    \o (IF c.ApprovalMode # "" THEN <<"--approval-mode", c.ApprovalMode>> ELSE <<>>)
    \o (IF c.IncludeDirs # "" THEN <<"--include-directories", c.IncludeDirs>> ELSE <<>>)
    \o (IF c.Debug THEN <<"--debug">> ELSE <<>>)

\* CLIExecutor.buildArgs
buildArgs(c, prompt) ==
    <<"--prompt", prompt>>
    \o (IF c.OutputFormat # "" THEN <<"--output-format", c.OutputFormat>> ELSE <<>>)
    \o (IF c.Model # "" THEN <<"--model", c.Model>> ELSE <<>>)
    \o (IF c.Yolo THEN <<"--yolo">> ELSE <<>>)
    \o (IF c.ApprovalMode # "" THEN <<"--approval-mode", c.ApprovalMode>> ELSE <<>>)
    \o (IF c.IncludeDirs # "" THEN <<"--include-directories", c.IncludeDirs>> ELSE <<>>)
    \o (IF c.Debug THEN <<"--debug">> ELSE <<>>)

----------------------------------------------------------------------------
(* errors.go                                                               *)

NoDetail == [stderr |-> <<>>, etype |-> <<>>, emsg |-> <<>>]
NilErr == [kind |-> "nil", detail |-> NoDetail]
ErrPromptRequired == [kind |-> "ErrPromptRequired", detail |-> NoDetail]
ErrGeminiCLINotFound == [kind |-> "ErrGeminiCLINotFound", detail |-> NoDetail]
ErrTimeout == [kind |-> "ErrTimeout", detail |-> NoDetail]
\* fmt.Errorf("%w: ...", ErrCLIExecution, ...) and ("%w: ...", ErrOutputParsing, ...)
ErrCLIExecution(detail) == [kind |-> "ErrCLIExecution", detail |-> detail]
ErrOutputParsing == [kind |-> "ErrOutputParsing", detail |-> NoDetail]

----------------------------------------------------------------------------
(* output_parser.go: the JSON texts the subprocess can print               *)

\* one JSON value as encoding/json sees it: its kind, the members the two
\* target structs read (<<>>: absent or null), and the members whose JSON
\* type does not fit the Go field they are decoded into
ObjBase ==
    [kind |-> "object", response |-> <<>>, stats |-> <<>>, error |-> <<>>,
     type |-> "", role |-> "", content |-> <<>>, delta |-> FALSE,
     illTyped |-> {}]

\* CLIStats values (stats members)
StatsEmpty == [Models |-> <<>>, TotalCalls |-> 0]
StatsPro ==
    [Models |-> << [name |-> "gemini-2.5-pro",
                    Tokens |-> [Prompt |-> 1000, Candidates |-> 500,
                                Total |-> 1500, Cached |-> 200,
                                Thoughts |-> 100, Tool |-> 50]] >>,
     TotalCalls |-> 3]

\* CLIError value (error member)
AuthError ==
    [Type |-> <<"AuthError">>, Message |-> <<"Invalid API key">>, Code |-> 401]

\* the JSON documents of the model; each is one token of a text
JSONValue(tok) ==
    CASE tok = "D_hello"   -> [ObjBase EXCEPT !.response = << <<"H", "i">> >>]
      [] tok = "D_stats"   -> [ObjBase EXCEPT !.response = << <<"P">> >>,
                                              !.stats = <<StatsPro>>]
      [] tok = "D_err"     -> [ObjBase EXCEPT !.response = << <<>> >>,
                                              !.error = <<AuthError>>]
      [] tok = "D_errtext" -> [ObjBase EXCEPT !.response = << <<"H">> >>,
                                              !.error = <<AuthError>>]
      [] tok = "D_null"    -> [ObjBase EXCEPT !.kind = "null"]
      [] tok = "D_array"   -> [ObjBase EXCEPT !.kind = "array"]
      [] tok = "D_badtype" -> [ObjBase EXCEPT !.illTyped = {"response"}]
      [] tok = "E_init"    -> [ObjBase EXCEPT !.type = "init"]
      [] tok = "E_user"    -> [ObjBase EXCEPT !.type = "message", !.role = "user",
                                              !.content = <<"H", "e">>]
      [] tok = "E_asst"    -> [ObjBase EXCEPT !.type = "message",
                                              !.role = "assistant",
                                              !.content = <<"H", "i", "!">>]
      [] tok = "E_delta"   -> [ObjBase EXCEPT !.type = "message",
                                              !.role = "assistant",
                                              !.content = <<"H">>,
                                              !.delta = TRUE]
      [] tok = "E_asst2"   -> [ObjBase EXCEPT !.type = "message",
                                              !.role = "assistant",
                                              !.content = <<"B", "y", "e">>]
      [] tok = "E_result"  -> [ObjBase EXCEPT !.type = "result",
                                              !.stats = <<StatsEmpty>>]
      [] tok = "E_result2" -> [ObjBase EXCEPT !.type = "result",
                                              !.stats = <<StatsPro>>]
      [] tok = "E_error"   -> [ObjBase EXCEPT !.type = "error"]
      [] tok = "E_baddelta" -> [ObjBase EXCEPT !.type = "message",
                                               !.role = "assistant",
                                               !.content = <<"N">>,
                                               !.illTyped = {"delta"}]

DocTokens ==
    {"D_hello", "D_stats", "D_err", "D_errtext", "D_null", "D_array",
     "D_badtype", "E_init", "E_user", "E_asst", "E_asst2", "E_delta",
     "E_result", "E_result2", "E_error", "E_baddelta"}

\* the syntax check of json.Unmarshal: the text is one JSON value, with
\* nothing but JSON whitespace around it
IsValidJSON(text) ==
    LET t == TrimSpace(text) IN Len(t) = 1 /\ t[1] \in DocTokens

\* json.Unmarshal([]byte(text), &CLIResponse{})
UnmarshalResponse(text) ==
    LET zero == [Response |-> <<>>, Stats |-> Nil, Error |-> Nil] IN
    IF ~IsValidJSON(text) THEN [ok |-> FALSE, v |-> zero]
    ELSE LET j == JSONValue(TrimSpace(text)[1]) IN
         IF j.kind = "null" THEN [ok |-> TRUE, v |-> zero]
         ELSE IF j.kind # "object" THEN [ok |-> FALSE, v |-> zero]
         ELSE IF j.illTyped \cap {"response", "stats", "error"} # {}
         THEN [ok |-> FALSE, v |-> zero]
         ELSE [ok |-> TRUE,
               v |-> [Response |-> IF j.response = <<>> THEN <<>>
                                   ELSE j.response[1],
                      Stats |-> j.stats,
                      Error |-> j.error]]

\* json.Unmarshal([]byte(text), &StreamEvent{})
UnmarshalEvent(text) ==
    LET zero == [Type |-> "", Role |-> "", Content |-> <<>>, Delta |-> FALSE,
                 Stats |-> Nil] IN
    IF ~IsValidJSON(text) THEN [ok |-> FALSE, v |-> zero]
    ELSE LET j == JSONValue(TrimSpace(text)[1]) IN
         IF j.kind = "null" THEN [ok |-> TRUE, v |-> zero]
         ELSE IF j.kind # "object" THEN [ok |-> FALSE, v |-> zero]
         ELSE IF j.illTyped \cap {"type", "role", "content", "delta", "stats"} # {}
         THEN [ok |-> FALSE, v |-> zero]
         ELSE [ok |-> TRUE,
               v |-> [Type |-> j.type, Role |-> j.role, Content |-> j.content,
                      Delta |-> j.delta, Stats |-> j.stats]]

----------------------------------------------------------------------------
(* output_parser.go: the three entry points                                *)

\* a ParseJSON that turns an in-band error object into a parse failure
ParseJSON_InBandErrorFails(output) ==
    LET o == TrimSpace(output) IN
    IF o = <<>> THEN [resp |-> Nil, err |-> ErrOutputParsing]
    ELSE LET u == UnmarshalResponse(o) IN
         IF ~u.ok \/ u.v.Error # Nil THEN [resp |-> Nil, err |-> ErrOutputParsing]
         ELSE [resp |-> <<u.v>>, err |-> NilErr]

\* OutputParser.ParseJSON: (*CLIResponse, error)
ParseJSON(output) ==
    LET o == TrimSpace(output) IN
    IF o = <<>> THEN [resp |-> Nil, err |-> ErrOutputParsing]
    ELSE LET u == UnmarshalResponse(o) IN
         IF ~u.ok THEN [resp |-> Nil, err |-> ErrOutputParsing]
         ELSE [resp |-> <<u.v>>, err |-> NilErr]

\* strings.Split(s, "\n")
RECURSIVE SplitFrom(_, _)
SplitFrom(s, cur) ==
    IF s = <<>> THEN <<cur>>
    ELSE IF Head(s) = "\n" THEN <<cur>> \o SplitFrom(Tail(s), <<>>)
    ELSE SplitFrom(Tail(s), Append(cur, Head(s)))

Split(s) == SplitFrom(s, <<>>)

\* a loop body in which a line that fails to parse drops what was collected
StreamStep_BadLineResets(acc, rawLine) ==
    LET line == TrimSpace(rawLine) IN
    IF line = <<>> THEN acc
    ELSE LET u == UnmarshalEvent(line) IN
         IF ~u.ok THEN [events |-> <<>>, final |-> Nil]
         ELSE [events |-> Append(acc.events, u.v), final |-> acc.final]

\* a loop body in which a delta fragment also counts as the final message
StreamStep_DeltaCounts(acc, rawLine) ==
    LET line == TrimSpace(rawLine) IN
    IF line = <<>> THEN acc
    ELSE LET u == UnmarshalEvent(line) IN
         IF ~u.ok THEN acc
         ELSE [events |-> Append(acc.events, u.v),
               final |-> IF u.v.Type = "result"
                         THEN << [Response |-> <<>>, Stats |-> u.v.Stats,
                                  Error |-> Nil] >>
                         ELSE IF u.v.Type = "message" /\ u.v.Role = "assistant"
                         THEN << [Response |-> u.v.Content, Stats |-> Nil,
                                  Error |-> Nil] >>
                         ELSE acc.final]

\* a loop body in which a result event keeps the text collected so far
StreamStep_ResultKeepsText(acc, rawLine) ==
    LET line == TrimSpace(rawLine) IN
    IF line = <<>> THEN acc
    ELSE LET u == UnmarshalEvent(line) IN
         IF ~u.ok THEN acc
         ELSE LET cur == IF acc.final = Nil
                         THEN [Response |-> <<>>, Stats |-> Nil, Error |-> Nil]
                         ELSE acc.final[1]
              IN  [events |-> Append(acc.events, u.v),
                   final |-> IF u.v.Type = "result"
                             THEN << [cur EXCEPT !.Stats = u.v.Stats] >>
                             ELSE IF u.v.Type = "message"
                                     /\ u.v.Role = "assistant" /\ ~u.v.Delta
                             THEN << [cur EXCEPT !.Response = u.v.Content] >>
                             ELSE acc.final]

\* one iteration of the loop of ParseStreamJSON (lines 148-178)
StreamStep(acc, rawLine) ==
    LET line == TrimSpace(rawLine) IN
    IF line = <<>> THEN acc
    ELSE LET u == UnmarshalEvent(line) IN
         IF ~u.ok THEN acc
         ELSE LET event == u.v
                  afterResult ==
                      IF event.Type = "result"
                      THEN << [Response |-> <<>>, Stats |-> event.Stats,
                               Error |-> Nil] >>
                      ELSE acc.final
                  afterMessage ==
                      IF event.Type = "message" /\ event.Role = "assistant"
                         /\ ~event.Delta
                      THEN LET cur == IF afterResult = Nil
                                      THEN [Response |-> <<>>, Stats |-> Nil,
                                            Error |-> Nil]
                                      ELSE afterResult[1]
                           IN  << [cur EXCEPT !.Response = event.Content] >>
                      ELSE afterResult
              IN  [events |-> Append(acc.events, event), final |-> afterMessage]

RECURSIVE StreamLoop(_, _)
StreamLoop(acc, lines) ==
    IF lines = <<>> THEN acc
    ELSE StreamLoop(StreamStep(acc, Head(lines)), Tail(lines))

\* OutputParser.ParseStreamJSON: ([]StreamEvent, *CLIResponse, error)
ParseStreamJSON(output) ==
    LET r == StreamLoop([events |-> <<>>, final |-> Nil],
                        Split(TrimSpace(output)))
    IN  [events |-> r.events, resp |-> r.final, err |-> NilErr]

\* a ParseText that trims the front of the output only
ParseText_TrimLeftOnly(output) ==
    << [Response |-> TrimLeft(output), Stats |-> Nil, Error |-> Nil] >>

\* OutputParser.ParseText: *CLIResponse
ParseText(output) ==
    << [Response |-> TrimSpace(output), Stats |-> Nil, Error |-> Nil] >>

----------------------------------------------------------------------------
(* plugin.go: the pricing table and calculateModelCost                     *)
(*                                                                         *)
(* A model identifier is a sequence of segments, no segment a part of any  *)
(* text made of the others, so that one identifier contains another as a   *)
(* string exactly when it contains it as a run of segments.  A price is in *)
(* thousandths of a dollar per million tokens (1.25 is 1250, 0.075 is 75), *)
(* so that tokens times price is a cost in billionths of a dollar: the     *)
(* division by 1,000,000 of lines 388-390 is in the unit.  The arithmetic  *)
(* is exact; float64 rounds each step to 53 bits.                          *)

\* strings.ToLower on one segment
LowerSegment(g) ==
    CASE g = "Gemini" -> "gemini"
      [] g = "PRO"    -> "pro"
      [] g = "Flash"  -> "flash"
      [] OTHER        -> g

\* strings.ToLower
ToLower(s) == [i \in 1..Len(s) |-> LowerSegment(s[i])]

\* strings.Contains
Contains(s, sub) ==
    \E i \in 0..Len(s) :
        i + Len(sub) <= Len(s) /\ SubSeq(s, i + 1, i + Len(sub)) = sub

\* a ModelPricing value
ModelPricing(name, inShort, inLong, outShort, outLong, threshold) ==
    [Name |-> name, InputPriceShort |-> inShort, InputPriceLong |-> inLong,
     OutputPriceShort |-> outShort, OutputPriceLong |-> outLong,
     LongContextThreshold |-> threshold]

PricingTable ==
    (<<"gemini", "-", "3", "-", "pro", "-", "preview">> :>
        ModelPricing("Gemini 3 Pro", 4000, 4000, 12000, 12000, 0))
    @@ (<<"gemini", "-", "3", "-", "flash", "-", "preview">> :>
        ModelPricing("Gemini 3 Flash", 500, 500, 3000, 3000, 0))
    @@ (<<"gemini", "-", "2.5", "-", "pro">> :>
        ModelPricing("Gemini 2.5 Pro", 1250, 2500, 10000, 15000, 200000))
    @@ (<<"gemini", "-", "2.5", "-", "flash">> :>
        ModelPricing("Gemini 2.5 Flash", 300, 300, 2500, 2500, 0))
    @@ (<<"gemini", "-", "2.5", "-", "flash", "-", "lite">> :>
        ModelPricing("Gemini 2.5 Flash-Lite", 100, 100, 400, 400, 0))
    @@ (<<"gemini", "-", "2.0", "-", "flash">> :>
        ModelPricing("Gemini 2.0 Flash", 150, 150, 600, 600, 0))
    @@ (<<"gemini", "-", "2.0", "-", "flash", "-", "exp">> :>
        ModelPricing("Gemini 2.0 Flash (Exp)", 150, 150, 600, 600, 0))
    @@ (<<"gemini", "-", "2.0", "-", "flash", "-", "lite">> :>
        ModelPricing("Gemini 2.0 Flash-Lite", 75, 75, 300, 300, 0))
    @@ (<<"gemini", "-", "1.5", "-", "pro">> :>
        ModelPricing("Gemini 1.5 Pro", 1250, 1250, 5000, 5000, 0))
    @@ (<<"gemini", "-", "1.5", "-", "flash">> :>
        ModelPricing("Gemini 1.5 Flash", 75, 75, 300, 300, 0))

\* the default pricing of lines 380-385: only the two short prices are set
DefaultPricing == ModelPricing("", 1000, 0, 5000, 0, 0)

\* a lookup that tries the partial match before the exact one
selectPricing_PartialFirst(name) ==
    LET partial == { key \in DOMAIN PricingTable :
                       Contains(ToLower(name), ToLower(key)) }
    IN  IF partial # {} THEN { PricingTable[key] : key \in partial }
        ELSE { ModelPricing("", 1000, 0, 5000, 0, 0) }

\* calculateModelCost lines 367-386: the values pricing can have once the
\* lookup is over. The partial match ranges over a Go map, whose iteration
\* order is not fixed: any key that matches can be the first one met.
selectPricing(name) ==
    IF name \in DOMAIN PricingTable THEN { PricingTable[name] }
    ELSE LET partial == { key \in DOMAIN PricingTable :
                            Contains(ToLower(name), ToLower(key)) }
         IN  IF partial # {} THEN { PricingTable[key] : key \in partial }
             ELSE { DefaultPricing }

\* a cost that leaves the thought tokens out
modelCost_ThoughtsFree(p, t) ==
    t.Prompt * p.InputPriceShort + t.Candidates * p.OutputPriceShort

\* a cost that bills a prompt above the long-context threshold at long prices
modelCost_LongContext(p, t) ==
    IF p.LongContextThreshold > 0 /\ t.Prompt > p.LongContextThreshold
    THEN t.Prompt * p.InputPriceLong
         + t.Candidates * p.OutputPriceLong
         + t.Thoughts * p.OutputPriceLong
    ELSE t.Prompt * p.InputPriceShort
         + t.Candidates * p.OutputPriceShort
         + t.Thoughts * p.OutputPriceShort

\* calculateModelCost lines 388-392, in billionths of a dollar
modelCost(p, t) ==
    t.Prompt * p.InputPriceShort
    + t.Candidates * p.OutputPriceShort
    + t.Thoughts * p.OutputPriceShort

\* calculateModelCost: the outcomes of one call
calculateModelCost(name, t) ==
    { [pricing |-> p, cost |-> modelCost(p, t)] : p \in selectPricing(name) }

----------------------------------------------------------------------------
(* Values the variables hold while the operation that uses them is idle    *)

NoParse == [fn |-> "none", events |-> <<>>, resp |-> Nil, err |-> NilErr]

AuthIdle ==
    /\ authMode = "unset"
    /\ env = <<>>
    /\ tmpFiles = <<>>

ArgsIdle == args = <<>>

ParseIdle ==
    /\ input = <<>>
    /\ parsed = NoParse

ExecIdle ==
    /\ probe = "none"
    /\ stdinInput = <<>>
    /\ proc = "none"
    /\ ctxErr = "none"
    /\ stdout = <<>>
    /\ stderr = <<>>
    /\ exitCode = 0
    /\ runErr = "none"
    /\ parserRuns = <<>>
    /\ result = Nil
    /\ returned = Nil
    /\ err = NilErr

CostIdle ==
    /\ modelName = <<>>
    /\ tokens = [Prompt |-> 0, Candidates |-> 0, Total |-> 0, Cached |-> 0,
                 Thoughts |-> 0, Tool |-> 0]
    /\ pricing = Nil
    /\ cost = Nil

\* os.Environ() of the plugin's container
BaseEnvs ==
    { << EnvVar("PATH", <<"/", "bin">>) >>,
      << EnvVar("PATH", <<"/", "bin">>), EnvVar("GEMINI_API_KEY", <<"old">>) >> }

----------------------------------------------------------------------------
(* Authentication: DetectAuthMode and buildEnv over the credential fields  *)

Credentials ==
    { <<>>, <<"/", "sa.json">>, <<"sa.json">>, <<"{", "}">>, <<" ", "{", "}">> }

AuthConfigs ==
    { [DefaultConfig EXCEPT !.APIKey = k, !.GCPProject = p, !.GCPLocation = l,
                            !.GCPCredentials = c] :
        k \in {"", "key"}, p \in {"", "proj"}, l \in {"", "us-central1"},
        c \in Credentials }

InitAuth ==
    /\ config \in AuthConfigs
    /\ baseEnv \in BaseEnvs
    /\ pc = "auth"
    /\ AuthIdle /\ ArgsIdle /\ ParseIdle /\ ExecIdle /\ CostIdle

\* a call of Config.DetectAuthMode
DetectAuthModeCall ==
    /\ pc = "auth"
    /\ authMode' = DetectAuthMode(config)
    /\ pc' = "auth_detected"
    /\ UNCHANGED costVars
    /\ UNCHANGED <<config, baseEnv, env, tmpFiles, args, input, parsed, probe,
                   stdinInput, proc, ctxErr, stdout, stderr, exitCode, runErr,
                   parserRuns, result, returned, err>>

\* a call of CLIExecutor.buildEnv
BuildEnvCall ==
    /\ pc = "auth_detected"
    /\ \E tmpOk \in BOOLEAN, absOk \in BOOLEAN :
         /\ env' = buildEnv(config, baseEnv, tmpOk, absOk)
         /\ tmpFiles' = tmpFiles \o TmpWritten(config, tmpOk)
    /\ pc' = "auth_env"
    /\ UNCHANGED costVars
    /\ UNCHANGED <<config, baseEnv, authMode, args, input, parsed, probe,
                   stdinInput, proc, ctxErr, stdout, stderr, exitCode, runErr,
                   parserRuns, result, returned, err>>

NextAuth == DetectAuthModeCall \/ BuildEnvCall

SpecAuth == InitAuth /\ [][NextAuth]_vars

\* C1: DetectAuthMode is a total function of which of APIKey, GCPProject and
\* GCPCredentials are non-empty: Vertex when the project and at least one of
\* API key or credentials are set, else Gemini API key when the key is set,
\* else None; and the call leaves the Config as it was.
C1_DetectAuthModeTable ==
    /\ [](pc # "auth" =>
            /\ authMode \in {AuthModeNone, AuthModeGeminiAPIKey, AuthModeVertexAI}
            /\ authMode =
                 IF /\ config.GCPProject # ""
                    /\ (config.APIKey # "" \/ config.GCPCredentials # <<>>)
                 THEN AuthModeVertexAI
                 ELSE IF config.APIKey # "" THEN AuthModeGeminiAPIKey
                 ELSE AuthModeNone)
    /\ [][config' = config]_vars

\* C1 witness: API key and project set, credentials set too: Vertex
C1_Witness ==
    /\ pc = "auth_detected"
    /\ config.APIKey # "" /\ config.GCPProject # ""
    /\ config.GCPCredentials # <<>>
    /\ authMode = AuthModeVertexAI

\* C2 as stated: credentials without a project give AuthModeNone whatever
\* the other fields hold.
C2_CredsWithoutProjectIsNone ==
    (pc # "auth" /\ config.GCPCredentials # <<>> /\ config.GCPProject = "")
        => authMode = AuthModeNone

\* C2 amended: credentials without a project never give Vertex; the mode
\* is None when the API key is empty and Gemini API key when it is set.
C2_CredsWithoutProject ==
    (pc # "auth" /\ config.GCPCredentials # <<>> /\ config.GCPProject = "")
        => /\ authMode # AuthModeVertexAI
           /\ (config.APIKey = "" => authMode = AuthModeNone)
           /\ (config.APIKey # "" => authMode = AuthModeGeminiAPIKey)

\* C2 witness: credentials alone, no project, no key: None
C2_Witness ==
    /\ pc = "auth_detected"
    /\ config.GCPCredentials # <<>> /\ config.GCPProject = ""
    /\ config.APIKey = ""
    /\ authMode = AuthModeNone

\* the assignments buildEnv appended to the base environment
Overrides == SubSeq(env, Len(baseEnv) + 1, Len(env))

\* the values the overrides assign to a variable, in order
ValuesOf(name) ==
    LET isName(a) == a.name = name
        sel == SelectSeq(Overrides, isName)
    IN  [i \in 1..Len(sel) |-> sel[i].value]

\* C18: in Vertex mode the overrides of buildEnv hold
\* GOOGLE_GENAI_USE_VERTEXAI=true, GOOGLE_CLOUD_PROJECT, GOOGLE_CLOUD_LOCATION
\* and exactly one of GOOGLE_API_KEY and GOOGLE_APPLICATION_CREDENTIALS, never
\* GEMINI_API_KEY; with API key and project set the API key is the credential.
C18_VertexEnv ==
    (pc = "auth_env" /\ authMode = AuthModeVertexAI)
        => /\ ValuesOf("GOOGLE_GENAI_USE_VERTEXAI") = << <<"true">> >>
           /\ ValuesOf("GOOGLE_CLOUD_PROJECT") = << T(config.GCPProject) >>
           /\ Len(ValuesOf("GOOGLE_CLOUD_LOCATION")) = 1
           /\ Len(ValuesOf("GOOGLE_API_KEY"))
                + Len(ValuesOf("GOOGLE_APPLICATION_CREDENTIALS")) = 1
           /\ ValuesOf("GEMINI_API_KEY") = <<>>
           /\ config.APIKey # ""
                => /\ ValuesOf("GOOGLE_API_KEY") = << T(config.APIKey) >>
                   /\ ValuesOf("GOOGLE_APPLICATION_CREDENTIALS") = <<>>

\* what does hold of the Vertex overrides: the flag and the project always,
\* never GEMINI_API_KEY, at least one credential, and the claimed overrides
\* when the location is set and only one of API key and credentials is
VertexEnvOneCredentialSet ==
    (pc = "auth_env" /\ authMode = AuthModeVertexAI)
        => /\ ValuesOf("GOOGLE_GENAI_USE_VERTEXAI") = << <<"true">> >>
           /\ ValuesOf("GOOGLE_CLOUD_PROJECT") = << T(config.GCPProject) >>
           /\ ValuesOf("GEMINI_API_KEY") = <<>>
           /\ Len(ValuesOf("GOOGLE_API_KEY"))
                + Len(ValuesOf("GOOGLE_APPLICATION_CREDENTIALS")) >= 1
           /\ (config.GCPLocation # ""
               /\ (config.APIKey = "" \/ config.GCPCredentials = <<>>))
                => /\ Len(ValuesOf("GOOGLE_CLOUD_LOCATION")) = 1
                   /\ Len(ValuesOf("GOOGLE_API_KEY"))
                        + Len(ValuesOf("GOOGLE_APPLICATION_CREDENTIALS")) = 1

\* the credentials value looks like inline JSON (line 176)
IsInlineJSON(creds) == HasPrefix(TrimSpace(creds), "{")

\* C20: in Vertex mode with non-empty GCPCredentials, a value whose trimmed
\* text begins with "{" is written to a fresh temporary file and that file's
\* path is used, any other value is used as a path; the value handed over in
\* GOOGLE_APPLICATION_CREDENTIALS is always an absolute path, a relative one
\* resolved first, and never the inline JSON text.
C20_CredentialsPath ==
    (pc = "auth_env" /\ authMode = AuthModeVertexAI
     /\ config.GCPCredentials # <<>>)
        => /\ Len(ValuesOf("GOOGLE_APPLICATION_CREDENTIALS")) = 1
           /\ LET v == ValuesOf("GOOGLE_APPLICATION_CREDENTIALS")[1] IN
              /\ IsAbs(v)
              /\ IF IsInlineJSON(config.GCPCredentials)
                 THEN /\ Len(tmpFiles) = 1
                      /\ tmpFiles[1].content = config.GCPCredentials
                      /\ v = tmpFiles[1].name
                      /\ v # config.GCPCredentials
                 ELSE /\ tmpFiles = <<>>
                      /\ v = IF IsAbs(config.GCPCredentials)
                             THEN config.GCPCredentials
                             ELSE Cwd \o <<"/">> \o config.GCPCredentials

\* what does hold of the credentials path: when the temporary file was
\* written its path is the value; an absolute path given is used unchanged
CredentialsPathWhenWritten ==
    (pc = "auth_env" /\ authMode = AuthModeVertexAI
     /\ config.GCPCredentials # <<>>)
        => /\ Len(ValuesOf("GOOGLE_APPLICATION_CREDENTIALS")) = 1
           /\ LET v == ValuesOf("GOOGLE_APPLICATION_CREDENTIALS")[1] IN
              /\ tmpFiles # <<>>
                   => /\ IsInlineJSON(config.GCPCredentials)
                      /\ tmpFiles[1].content = config.GCPCredentials
                      /\ v = tmpFiles[1].name /\ IsAbs(v)
              /\ IsAbs(config.GCPCredentials) => v = config.GCPCredentials

\* the names of the variables the Vertex branch of buildEnv sets
GoogleVars ==
    {"GOOGLE_GENAI_USE_VERTEXAI", "GOOGLE_CLOUD_PROJECT",
     "GOOGLE_CLOUD_LOCATION", "GOOGLE_API_KEY",
     "GOOGLE_APPLICATION_CREDENTIALS"}

\* C21: outside Vertex mode buildEnv leaves the base environment as it is: in
\* API-key mode the child environment is the base environment followed by
\* the one override GEMINI_API_KEY=<APIKey>, in None mode it is the base
\* environment alone; no GOOGLE_* variable is added and no temporary
\* credentials file is written, whatever GCPCredentials and GCPLocation hold.
C21_NonVertexEnv ==
    (pc = "auth_env" /\ authMode # AuthModeVertexAI)
        => /\ authMode \in {AuthModeGeminiAPIKey, AuthModeNone}
           /\ SubSeq(env, 1, Len(baseEnv)) = baseEnv
           /\ authMode = AuthModeGeminiAPIKey
                => env = baseEnv \o << EnvVar("GEMINI_API_KEY", T(config.APIKey)) >>
           /\ authMode = AuthModeNone => env = baseEnv
           /\ \A i \in 1..Len(Overrides) : Overrides[i].name \notin GoogleVars
           /\ tmpFiles = <<>>

\* C21 witness: API-key mode with inline credentials and a location set, and
\* a GEMINI_API_KEY already in the base environment
C21_Witness ==
    /\ pc = "auth_env"
    /\ authMode = AuthModeGeminiAPIKey
    /\ IsInlineJSON(config.GCPCredentials)
    /\ config.GCPLocation # ""
    /\ Len(baseEnv) = 2
    /\ env = baseEnv \o << EnvVar("GEMINI_API_KEY", <<"key">>) >>
    /\ tmpFiles = <<>>

----------------------------------------------------------------------------
(* Arguments: buildArgs over the settings it reads                         *)

ArgsConfigs ==
    { [DefaultConfig EXCEPT !.Prompt = p, !.OutputFormat = f, !.Model = m,
                            !.Yolo = y, !.ApprovalMode = a,
                            !.IncludeDirs = d, !.Debug = g] :
        p \in {"", "Review this code", "--yolo"},
        f \in {"", "json", "text"},
        m \in {"", "gemini-2.5-pro"},
        y \in BOOLEAN,
        a \in {"", "auto_edit"},
        d \in {"", "src,docs"},
        g \in BOOLEAN }

InitArgs ==
    /\ config \in ArgsConfigs
    /\ baseEnv = <<>>
    /\ pc = "args"
    /\ AuthIdle /\ ArgsIdle /\ ParseIdle /\ ExecIdle /\ CostIdle

\* a call of CLIExecutor.buildArgs with the configured prompt
BuildArgsCall ==
    /\ pc = "args"
    /\ args' = buildArgs(config, config.Prompt)
    /\ pc' = "args_built"
    /\ UNCHANGED costVars
    /\ UNCHANGED <<config, baseEnv, authMode, env, tmpFiles, input, parsed,
                   probe, stdinInput, proc, ctxErr, stdout, stderr, exitCode,
                   runErr, parserRuns, result, returned, err>>

NextArgs == BuildArgsCall

SpecArgs == InitArgs /\ [][NextArgs]_vars

\* The argument vector as the flag vocabulary of the tool reads it, left to
\* right: a valued flag takes the next argument as its value, --yolo and
\* --debug take none, and any other argument is a stray one.
ValuedFlags ==
    {"--prompt", "--output-format", "--model", "--approval-mode",
     "--include-directories"}

BareFlags == {"--yolo", "--debug"}

RECURSIVE ReadFlags(_)
ReadFlags(a) ==
    IF a = <<>> THEN <<>>
    ELSE IF Head(a) \in ValuedFlags /\ Len(a) >= 2
    THEN << [flag |-> a[1], value |-> <<a[2]>>] >>
         \o ReadFlags(SubSeq(a, 3, Len(a)))
    ELSE IF Head(a) \in BareFlags
    THEN << [flag |-> a[1], value |-> <<>>] >> \o ReadFlags(Tail(a))
    ELSE << [flag |-> "stray", value |-> <<a[1]>>] >> \o ReadFlags(Tail(a))

FlagCount(a, f) ==
    Cardinality({i \in 1..Len(ReadFlags(a)) : ReadFlags(a)[i].flag = f})

\* position of a flag in the fixed order of the vocabulary
FlagRank(f) ==
    CASE f = "--prompt" -> 1
      [] f = "--output-format" -> 2
      [] f = "--model" -> 3
      [] f = "--yolo" -> 4
      [] f = "--approval-mode" -> 5
      [] f = "--include-directories" -> 6
      [] f = "--debug" -> 7
      [] OTHER -> 0

\* C8: the vector holds exactly one prompt flag, followed by the prompt, and
\* no flag of an optional setting that is empty or false.
C8_ArgsOmitEmpty ==
    pc = "args_built" =>
        /\ FlagCount(args, "--prompt") = 1
        /\ \E i \in 1..Len(ReadFlags(args)) :
             ReadFlags(args)[i] = [flag |-> "--prompt", value |-> <<config.Prompt>>]
        /\ (config.OutputFormat = "" => FlagCount(args, "--output-format") = 0)
        /\ (config.Model = "" => FlagCount(args, "--model") = 0)
        /\ (~config.Yolo => FlagCount(args, "--yolo") = 0)
        /\ (config.ApprovalMode = "" => FlagCount(args, "--approval-mode") = 0)
        /\ (config.IncludeDirs = "" => FlagCount(args, "--include-directories") = 0)
        /\ (~config.Debug => FlagCount(args, "--debug") = 0)

\* C8 witness: every optional setting empty or false, the prompt flag alone
C8_Witness ==
    /\ pc = "args_built"
    /\ config.OutputFormat = "" /\ config.Model = "" /\ ~config.Yolo
    /\ config.ApprovalMode = "" /\ config.IncludeDirs = "" /\ ~config.Debug
    /\ config.Prompt = "--yolo"
    /\ Len(args) = 2

\* C9: the flags appear in the fixed order, each valued flag is followed by
\* its one value (IncludeDirs as a single argument), --yolo and --debug carry
\* none, and no stray or placeholder argument is left in the vector.
C9_ArgsFixedOrder ==
    pc = "args_built" =>
        LET d == ReadFlags(args) IN
        /\ \A i \in 1..Len(d) : d[i].flag # "stray"
        /\ \A i, j \in 1..Len(d) : i < j => FlagRank(d[i].flag) < FlagRank(d[j].flag)
        /\ \A i \in 1..Len(d) :
             d[i].value =
               CASE d[i].flag = "--prompt" -> <<config.Prompt>>
                 [] d[i].flag = "--output-format" -> <<config.OutputFormat>>
                 [] d[i].flag = "--model" -> <<config.Model>>
                 [] d[i].flag = "--approval-mode" -> <<config.ApprovalMode>>
                 [] d[i].flag = "--include-directories" -> <<config.IncludeDirs>>
                 [] OTHER -> <<>>
        /\ \A i \in 1..Len(d) :
             d[i].flag \in ValuedFlags \ {"--prompt"} => d[i].value # <<"">>
        /\ Len(args) = Len(d) + Cardinality({i \in 1..Len(d) : d[i].flag \in ValuedFlags})

\* C9 witness: every setting present, all seven flags emitted
C9_Witness ==
    /\ pc = "args_built"
    /\ Len(ReadFlags(args)) = 7
    /\ Len(args) = 12
    /\ config.IncludeDirs = "src,docs"

----------------------------------------------------------------------------
(* Parsing: the three entry points over subprocess output                  *)

\* longest document text, in tokens, and most lines of a transcript
MaxDocLen == 3
MaxLines == 4

SeqsUpTo(S, n) == UNION { [1..k -> S] : k \in 0..n }

\* characters and documents of a single-document output
DocAlphabet ==
    {" ", "\n", "x", "D_hello", "D_stats", "D_err", "D_errtext", "D_null",
     "D_array", "D_badtype"}

\* the lines of a stream-json transcript: events, blank and damaged lines
StreamLines ==
    { <<>>, <<"x">>, <<"E_init">>, <<"E_user">>, <<"E_asst", " ">>,
      <<"E_asst2">>, <<"E_delta">>, <<"E_result">>, <<"E_result2">>,
      <<"E_error">>, <<"E_baddelta">> }

RECURSIVE JoinLines(_)
JoinLines(ls) ==
    IF ls = <<>> THEN <<>>
    ELSE IF Len(ls) = 1 THEN ls[1]
    ELSE ls[1] \o <<"\n">> \o JoinLines(Tail(ls))

ParseInputs ==
    SeqsUpTo(DocAlphabet, MaxDocLen)
    \cup { JoinLines(ls) : ls \in SeqsUpTo(StreamLines, MaxLines) }

InitParse ==
    /\ config = DefaultConfig
    /\ baseEnv = <<>>
    /\ pc = "parse_in"
    /\ input \in ParseInputs
    /\ parsed = NoParse
    /\ AuthIdle /\ ArgsIdle /\ ExecIdle /\ CostIdle

\* a call of OutputParser.ParseJSON
ParseJSONCall ==
    /\ pc = "parse_in"
    /\ parsed' = [fn |-> "ParseJSON", events |-> <<>>,
                  resp |-> ParseJSON(input).resp, err |-> ParseJSON(input).err]
    /\ pc' = "parsed"
    /\ UNCHANGED costVars
    /\ UNCHANGED <<config, baseEnv, authMode, env, tmpFiles, args, input,
                   probe, stdinInput, proc, ctxErr, stdout, stderr, exitCode,
                   runErr, parserRuns, result, returned, err>>

\* a call of OutputParser.ParseStreamJSON
ParseStreamJSONCall ==
    /\ pc = "parse_in"
    /\ parsed' = [fn |-> "ParseStreamJSON",
                  events |-> ParseStreamJSON(input).events,
                  resp |-> ParseStreamJSON(input).resp,
                  err |-> ParseStreamJSON(input).err]
    /\ pc' = "parsed"
    /\ UNCHANGED costVars
    /\ UNCHANGED <<config, baseEnv, authMode, env, tmpFiles, args, input,
                   probe, stdinInput, proc, ctxErr, stdout, stderr, exitCode,
                   runErr, parserRuns, result, returned, err>>

\* a call of OutputParser.ParseText
ParseTextCall ==
    /\ pc = "parse_in"
    /\ parsed' = [fn |-> "ParseText", events |-> <<>>,
                  resp |-> ParseText(input), err |-> NilErr]
    /\ pc' = "parsed"
    /\ UNCHANGED costVars
    /\ UNCHANGED <<config, baseEnv, authMode, env, tmpFiles, args, input,
                   probe, stdinInput, proc, ctxErr, stdout, stderr, exitCode,
                   runErr, parserRuns, result, returned, err>>

NextParse == ParseJSONCall \/ ParseStreamJSONCall \/ ParseTextCall

SpecParse == InitParse /\ [][NextParse]_vars

\* the JSON value written on line i of a transcript
LineValue(text, i) == JSONValue(TrimSpace(Split(text)[i])[1])

\* a transcript init, message(user), message(assistant, non-delta), result
IsFourLineTranscript(text) ==
    /\ Len(Split(text)) = 4
    /\ \A i \in 1..4 : IsValidJSON(Split(text)[i])
    /\ \A i \in 1..4 : /\ LineValue(text, i).kind = "object"
                       /\ LineValue(text, i).illTyped = {}
    /\ LineValue(text, 1).type = "init"
    /\ LineValue(text, 2).type = "message" /\ LineValue(text, 2).role = "user"
    /\ LineValue(text, 3).type = "message"
    /\ LineValue(text, 3).role = "assistant"
    /\ ~LineValue(text, 3).delta
    /\ LineValue(text, 4).type = "result"

\* C3: the streaming parse of init, message(user), message(assistant,
\* non-delta), result yields the 4 events in order and a non-nil Response
\* whose text is the assistant message's content and whose Stats are the
\* result event's stats.
C3_StreamTranscript ==
    (pc = "parsed" /\ parsed.fn = "ParseStreamJSON" /\ IsFourLineTranscript(input))
        => /\ Len(parsed.events) = 4
           /\ \A i \in 1..4 :
                /\ parsed.events[i].Type = LineValue(input, i).type
                /\ parsed.events[i].Role = LineValue(input, i).role
                /\ parsed.events[i].Content = LineValue(input, i).content
           /\ parsed.resp # Nil
           /\ parsed.resp[1].Response = LineValue(input, 3).content
           /\ parsed.resp[1].Stats = LineValue(input, 4).stats

\* the trimmed text is one JSON document
IsOneDocument(text) == IsValidJSON(text)

\* the trimmed text is one JSON document that decodes into CLIResponse: null,
\* or an object whose response, stats and error members have the Go types
FitsResponse(text) ==
    /\ IsValidJSON(text)
    /\ LET j == JSONValue(TrimSpace(text)[1]) IN
       \/ j.kind = "null"
       \/ /\ j.kind = "object"
          /\ j.illTyped \cap {"response", "stats", "error"} = {}

\* what ParseJSON returns on success: the document's response field as the
\* text, and its error object carried in the Response
ParseJSONSucceeded ==
    LET j == JSONValue(TrimSpace(input)[1]) IN
    /\ parsed.err = NilErr
    /\ parsed.resp # Nil
    /\ parsed.resp[1].Response = (IF j.response = <<>> THEN <<>> ELSE j.response[1])
    /\ parsed.resp[1].Error = j.error

ParseJSONFailed ==
    /\ parsed.err.kind = "ErrOutputParsing"
    /\ parsed.resp = Nil

\* C10 as stated: ParseJSON fails with ErrOutputParsing and a nil Response
\* when the input is empty, whitespace-only or not one valid JSON document,
\* and otherwise succeeds with the document's response field as the text.
C10_ParseJSONValidDocument ==
    (pc = "parsed" /\ parsed.fn = "ParseJSON")
        => IF IsOneDocument(input) THEN ParseJSONSucceeded ELSE ParseJSONFailed

\* C10 amended: ParseJSON fails when the input is empty, whitespace-only or
\* not one JSON document that decodes into the Response shape, and otherwise
\* succeeds; a document with an error object still parses, the Error carried.
C10_ParseJSON ==
    (pc = "parsed" /\ parsed.fn = "ParseJSON")
        => IF FitsResponse(input) THEN ParseJSONSucceeded ELSE ParseJSONFailed

\* C10 witness: a document with an error object, whitespace around it
C10_Witness ==
    /\ pc = "parsed" /\ parsed.fn = "ParseJSON"
    /\ input = <<" ", "D_err", "\n">>
    /\ parsed.err = NilErr
    /\ parsed.resp # Nil
    /\ parsed.resp[1].Error = <<AuthError>>

\* the lines of a text that are not blank and decode into a StreamEvent
IsEventLine(l) == TrimSpace(l) # <<>> /\ UnmarshalEvent(TrimSpace(l)).ok

EventLines(text) == SelectSeq(Split(text), IsEventLine)

\* C11: ParseStreamJSON never returns an error; the events it returns are
\* exactly the non-blank lines that parse, in their original order, each as it
\* parses on its own, whatever blank or damaged lines stand between them.
C11_StreamSkipsBadLines ==
    (pc = "parsed" /\ parsed.fn = "ParseStreamJSON")
        => /\ parsed.err = NilErr
           /\ Len(parsed.events) = Len(EventLines(input))
           /\ \A i \in 1..Len(parsed.events) :
                /\ parsed.events[i] = UnmarshalEvent(TrimSpace(EventLines(input)[i])).v
                /\ <<parsed.events[i]>> = ParseStreamJSON(EventLines(input)[i]).events

\* C11 witness: a damaged line and a blank line between parsed events
C11_Witness ==
    /\ pc = "parsed" /\ parsed.fn = "ParseStreamJSON"
    /\ input = <<"E_init", "\n", "x", "\n", "\n", "E_result2">>
    /\ parsed.err = NilErr
    /\ Len(parsed.events) = 2
    /\ parsed.events[1].Type = "init"
    /\ parsed.events[2].Type = "result"

\* an event that sets the reconstructed Response: a result, or an assistant
\* message that is not a delta fragment
IsFinalEvent(e) ==
    \/ e.Type = "result"
    \/ e.Type = "message" /\ e.Role = "assistant" /\ ~e.Delta

\* some line of the text parses to such an event
HasFinalEvent(text) ==
    \E i \in 1..Len(EventLines(text)) :
        IsFinalEvent(UnmarshalEvent(TrimSpace(EventLines(text)[i])).v)

\* ParseStreamJSON alone: the Response is nil exactly when no line parses to
\* a result or final assistant message, and the error is nil either way
StreamResponseNilIffNoFinal ==
    (pc = "parsed" /\ parsed.fn = "ParseStreamJSON")
        => /\ parsed.err = NilErr
           /\ (parsed.resp = Nil) <=> ~HasFinalEvent(input)

\* r is text with whitespace, and nothing else, taken off its two ends
IsTrimOf(r, text) ==
    /\ r # <<>> => ~IsSpace(r[1]) /\ ~IsSpace(r[Len(r)])
    /\ \E a \in 0..Len(text) :
         /\ a + Len(r) <= Len(text)
         /\ r = SubSeq(text, a + 1, a + Len(r))
         /\ \A i \in 1..Len(text) :
                (i <= a \/ i > a + Len(r)) => IsSpace(text[i])

Max(S) == CHOOSE m \in S : \A n \in S : n <= m

\* positions of the result events among the events
ResultAt(ev) == { i \in 1..Len(ev) : ev[i].Type = "result" }

\* position of the last result event, 0 if there is none
LastResult(ev) == IF ResultAt(ev) = {} THEN 0 ELSE Max(ResultAt(ev))

\* positions of the non-delta assistant messages after the last result event
TextAt(ev) ==
    { i \in 1..Len(ev) :
        /\ i > LastResult(ev)
        /\ ev[i].Type = "message" /\ ev[i].Role = "assistant" /\ ~ev[i].Delta }

\* C22: the Response of ParseStreamJSON follows from the parsed events in
\* order: a result event starts a fresh Response with its Stats only, a
\* non-delta assistant message sets the text, all else leaves it alone. So
\* the Stats are those of the last result event (nil if none) and the text is
\* the content of the last non-delta assistant message after the last result
\* event (empty if none); no such event at all gives no Response.
C22_StreamReconstruction ==
    (pc = "parsed" /\ parsed.fn = "ParseStreamJSON")
        => LET ev == parsed.events IN
           IF ResultAt(ev) = {} /\ TextAt(ev) = {}
           THEN parsed.resp = Nil
           ELSE /\ parsed.resp # Nil
                /\ parsed.resp[1].Stats =
                     (IF ResultAt(ev) = {} THEN Nil ELSE ev[LastResult(ev)].Stats)
                /\ parsed.resp[1].Response =
                     (IF TextAt(ev) = {} THEN <<>> ELSE ev[Max(TextAt(ev))].Content)
                /\ parsed.resp[1].Error = Nil

\* C22 witness: assistant message, result, second assistant message, delta:
\* the first text is discarded, the second kept with the result's Stats
C22_Witness ==
    /\ pc = "parsed" /\ parsed.fn = "ParseStreamJSON"
    /\ Len(parsed.events) = 4
    /\ parsed.events[1].Content = <<"H", "i", "!">> /\ ~parsed.events[1].Delta
    /\ parsed.events[2].Type = "result"
    /\ parsed.events[3].Content = <<"B", "y", "e">>
    /\ parsed.events[4].Delta
    /\ parsed.resp # Nil
    /\ parsed.resp[1].Response = <<"B", "y", "e">>
    /\ parsed.resp[1].Stats = <<StatsPro>>

\* C22 second case: the result event comes last and the text is empty
StreamResultLastDropsText ==
    /\ pc = "parsed" /\ parsed.fn = "ParseStreamJSON"
    /\ Len(parsed.events) = 2
    /\ parsed.events[1].Content = <<"H", "i", "!">> /\ ~parsed.events[1].Delta
    /\ parsed.events[2].Type = "result"
    /\ parsed.resp # Nil
    /\ parsed.resp[1].Response = <<>>

----------------------------------------------------------------------------
(* Cost: calculateModelCost over model identifiers and token counts        *)

\* model identifiers the statistics can name: the keys of the table, keys in
\* other letter case or with text around them, and unknown names
CostModels ==
    DOMAIN PricingTable
    \cup { <<"Gemini", "-", "2.5", "-", "PRO">>,
           <<"gemini", "-", "2.5", "-", "Flash", "-", "lite">>,
           <<"models/", "gemini", "-", "2.5", "-", "flash", "-", "lite">>,
           <<"gemini", "-", "2.0", "-", "flash", "-", "lite", "-", "preview">>,
           <<"models/", "gemini", "-", "1.5", "-", "pro">>,
           <<"gemini", "-", "2.5">>,
           <<"gpt", "-", "4">>,
           <<>> }

CostTokens ==
    [Prompt : {0, 1000, 250000}, Candidates : {0, 500}, Total : {0, 1600},
     Cached : {0, 200}, Thoughts : {0, 100}, Tool : {0, 50}]

InitCost ==
    /\ config = DefaultConfig
    /\ baseEnv = <<>>
    /\ pc = "cost"
    /\ modelName \in CostModels
    /\ tokens \in CostTokens
    /\ pricing = Nil
    /\ cost = Nil
    /\ AuthIdle /\ ArgsIdle /\ ParseIdle /\ ExecIdle

\* a call of calculateModelCost
CalculateModelCostCall ==
    /\ pc = "cost"
    /\ \E r \in calculateModelCost(modelName, tokens) :
         /\ pricing' = <<r.pricing>>
         /\ cost' = <<r.cost>>
    /\ pc' = "costed"
    /\ UNCHANGED <<modelName, tokens>>
    /\ UNCHANGED <<config, baseEnv, authMode, env, tmpFiles, args, input,
                   parsed, probe, stdinInput, proc, ctxErr, stdout, stderr,
                   exitCode, runErr, parserRuns, result, returned, err>>

NextCost == CalculateModelCostCall

SpecCost == InitCost /\ [][NextCost]_vars

\* the call of the worked example: gemini-2.5-pro (1.25 in, 10 out per
\* million) with prompt=1000, candidates=500, thoughts=100
IsWorkedExample ==
    /\ pc = "costed"
    /\ modelName = <<"gemini", "-", "2.5", "-", "pro">>
    /\ tokens.Prompt = 1000 /\ tokens.Candidates = 500 /\ tokens.Thoughts = 100

\* C14 as stated: the cost of the worked example is $0.00625, that is
\* 6,250,000 billionths of a dollar.
C14_CostIs625 ==
    IsWorkedExample => cost = <<6250000>>

\* C14 amended: the cost of the worked example is
\* (1000*1.25 + 500*10 + 100*10)/1,000,000 = $0.00725, that is 7,250,000
\* billionths of a dollar.
C14_CostIs725 ==
    IsWorkedExample
        => /\ pricing # Nil
           /\ pricing[1].InputPriceShort = 1250
           /\ pricing[1].OutputPriceShort = 10000
           /\ cost = <<1000 * 1250 + 500 * 10000 + 100 * 10000>>
           /\ cost = <<7250000>>

\* C14 witness: the worked example has been priced
C14_Witness ==
    /\ IsWorkedExample
    /\ tokens.Cached = 200 /\ tokens.Tool = 50
    /\ cost = <<7250000>>

\* the table keys contained, letter case aside, in the model identifier
PartialMatches ==
    { key \in DOMAIN PricingTable : Contains(ToLower(modelName), ToLower(key)) }

\* C15: calculateModelCost never fails and selects the price entry in this
\* order: the entry of the key equal to the model identifier, also when other
\* keys are contained in it; else the entry of some key contained in the
\* identifier, letter case aside; else the default pair 1.00 in and 5.00 out.
C15_PriceSelection ==
    (pc = "costed")
        => /\ pricing # Nil /\ cost # Nil
           /\ cost[1] >= 0
           /\ IF modelName \in DOMAIN PricingTable
              THEN pricing[1] = PricingTable[modelName]
              ELSE IF PartialMatches # {}
              THEN \E key \in PartialMatches : pricing[1] = PricingTable[key]
              ELSE /\ pricing[1].InputPriceShort = 1000
                   /\ pricing[1].OutputPriceShort = 5000
           /\ modelName = <<"gemini", "-", "2.5", "-", "flash", "-", "lite">>
                => pricing[1].Name = "Gemini 2.5 Flash-Lite"

\* C15 witness: gemini-2.5-flash-lite, of which the key gemini-2.5-flash is a
\* part, priced as itself
C15_Witness ==
    /\ pc = "costed"
    /\ modelName = <<"gemini", "-", "2.5", "-", "flash", "-", "lite">>
    /\ <<"gemini", "-", "2.5", "-", "flash">> \in PartialMatches
    /\ pricing # Nil
    /\ pricing[1].Name = "Gemini 2.5 Flash-Lite"
    /\ tokens.Prompt = 1000
    /\ cost = <<1000 * 100>>

----------------------------------------------------------------------------
(* plugin.go Exec and cli_executor.go Execute: one invocation of the plugin *)

\* a CheckGeminiCLI that drops the error of the probe
CheckGeminiCLI_IgnoreFailure(versionRan) == NilErr

\* CLIExecutor.CheckGeminiCLI, given whether gemini --version ran cleanly
CheckGeminiCLI(versionRan) ==
    IF ~versionRan THEN ErrGeminiCLINotFound ELSE NilErr

\* the text Plugin.buildGitContext produces
GitContext == <<"diff">>

\* an Execute that does not look at the deadline context after cmd.Run
AfterRun_NoDeadlineCheck(rErr, cErr, out, errOut, code) ==
    LET fresh == [RawOutput |-> out, Response |-> Nil, ExitCode |-> 0]
        coded == IF rErr = "ExitError" THEN [fresh EXCEPT !.ExitCode = code]
                 ELSE fresh
    IN  IF rErr = "nil"
        THEN [next |-> "parse", result |-> <<fresh>>, err |-> NilErr]
        ELSE IF Len(out) > 0
        THEN [next |-> "parse", result |-> <<coded>>, err |-> NilErr]
        ELSE [next |-> "done", result |-> <<coded>>,
              err |-> ErrCLIExecution([NoDetail EXCEPT !.stderr = errOut])]

\* Execute lines 77-100: what follows cmd.Run, given its error, the state of
\* the deadline context and what was captured
AfterRun(rErr, cErr, out, errOut, code) ==
    LET fresh == [RawOutput |-> out, Response |-> Nil, ExitCode |-> 0]
        coded == IF rErr = "ExitError" THEN [fresh EXCEPT !.ExitCode = code]
                 ELSE fresh
    IN  IF rErr = "nil"
        THEN [next |-> "parse", result |-> <<fresh>>, err |-> NilErr]
        ELSE IF cErr = "DeadlineExceeded"
        THEN [next |-> "done", result |-> <<fresh>>, err |-> ErrTimeout]
        ELSE IF Len(out) > 0
        THEN [next |-> "parse", result |-> <<coded>>, err |-> NilErr]
        ELSE [next |-> "done", result |-> <<coded>>,
              err |-> ErrCLIExecution([NoDetail EXCEPT !.stderr = errOut])]

\* what a parser entry point returned, tagged with the entry point
Parsed(fn, r) == [fn |-> fn, resp |-> r.resp, err |-> r.err]

\* an Execute that falls back on ParseText when ParseJSON fails
RunParser_FallbackToText(format, out) ==
    IF format = "json" /\ ParseJSON(out).err = NilErr
    THEN Parsed("ParseJSON", ParseJSON(out))
    ELSE IF format = "stream-json"
    THEN Parsed("ParseStreamJSON", ParseStreamJSON(out))
    ELSE Parsed("ParseText", [resp |-> ParseText(out), err |-> NilErr])

\* Execute lines 105-122: the parser chosen by the configured format
RunParser(format, out) ==
    IF format = "json" THEN Parsed("ParseJSON", ParseJSON(out))
    ELSE IF format = "stream-json"
    THEN Parsed("ParseStreamJSON", ParseStreamJSON(out))
    ELSE Parsed("ParseText", [resp |-> ParseText(out), err |-> NilErr])

\* an Execute without the check for an in-band error (lines 124-130)
CheckResponse_IgnoreInBand(res, p) ==
    IF p.err # NilErr
    THEN [fn |-> p.fn, returned |-> <<res>>, err |-> p.err]
    ELSE [fn |-> p.fn, returned |-> << [res EXCEPT !.Response = p.resp] >>,
          err |-> NilErr]

\* Execute lines 107-132: a parse error is returned with the result as it
\* is; otherwise the Response is stored and checked for an in-band error
CheckResponse(res, p) ==
    IF p.err # NilErr
    THEN [fn |-> p.fn, returned |-> <<res>>, err |-> p.err]
    ELSE IF p.resp # Nil /\ p.resp[1].Error # Nil
    THEN [fn |-> p.fn, returned |-> << [res EXCEPT !.Response = p.resp] >>,
          err |-> ErrCLIExecution(
                    [NoDetail EXCEPT !.etype = p.resp[1].Error[1].Type,
                                     !.emsg = p.resp[1].Error[1].Message])]
    ELSE [fn |-> p.fn, returned |-> << [res EXCEPT !.Response = p.resp] >>,
          err |-> NilErr]

\* Execute lines 102-133
AfterParse(format, res) == CheckResponse(res, RunParser(format, res.RawOutput))

ExecConfigs ==
    { [DefaultConfig EXCEPT !.Prompt = p, !.OutputFormat = f, !.GitDiff = g,
                            !.APIKey = k] :
        p \in {"", "Review this code"},
        f \in {"json", "stream-json", "text"},
        g \in BOOLEAN,
        k \in {"", "key"} }

\* what the subprocess can print before it ends
ExecStdouts ==
    { <<>>, <<" ">>, <<"x">>, <<"D_hello">>, <<"D_stats", "\n">>, <<"D_err">>,
      <<"D_errtext">>, <<"D_array">>, <<"E_asst2">>,
      <<"E_init", "\n", "E_asst", "\n", "E_result">>,
      <<"E_init", "\n", "E_error">>, <<"E_user", "\n", "E_delta">> }

ExecStderrs == { <<>>, <<"e", "r", "r">> }

\* exit statuses of a subprocess that ends on its own
ExitCodes == {0, 1, 41}

\* ProcessState.ExitCode() of a subprocess ended by a signal
KilledExitCode == -1

Init ==
    /\ config \in ExecConfigs
    /\ baseEnv \in BaseEnvs
    /\ pc = "validate"
    /\ AuthIdle /\ ArgsIdle /\ ParseIdle /\ ExecIdle /\ CostIdle

\* Exec lines 22-25
ValidateStep ==
    /\ pc = "validate"
    /\ IF Validate(config) # "nil"
       THEN /\ err' = ErrPromptRequired
            /\ pc' = "done"
       ELSE /\ err' = err
            /\ pc' = "probe"
    /\ UNCHANGED costVars
    /\ UNCHANGED <<config, baseEnv, authMode, env, tmpFiles, args, input,
                   parsed, probe, stdinInput, proc, ctxErr, stdout, stderr,
                   exitCode, runErr, parserRuns, result, returned>>

\* Exec lines 27-36: displayConfig, then the gemini --version probe
CheckGeminiCLIStep ==
    /\ pc = "probe"
    /\ authMode' = DetectAuthMode(config)
    /\ \E versionRan \in BOOLEAN :
         /\ probe' = IF versionRan THEN "ok" ELSE "fail"
         /\ err' = CheckGeminiCLI(versionRan)
         /\ pc' = IF CheckGeminiCLI(versionRan) # NilErr THEN "done" ELSE "gitctx"
    /\ UNCHANGED costVars
    /\ UNCHANGED <<config, baseEnv, env, tmpFiles, args, input, parsed,
                   stdinInput, proc, ctxErr, stdout, stderr, exitCode, runErr,
                   parserRuns, result, returned>>

\* Exec lines 38-55: the prompt and the stdin payload, with the git context
GitContextStep ==
    /\ pc = "gitctx"
    /\ IF config.GitDiff
       THEN \E built \in BOOLEAN :
              stdinInput' =
                IF ~built THEN config.StdinInput
                ELSE IF config.StdinInput # <<>>
                THEN config.StdinInput \o <<"\n", "\n">> \o GitContext
                ELSE GitContext
       ELSE stdinInput' = config.StdinInput
    /\ pc' = "execute"
    /\ UNCHANGED costVars
    /\ UNCHANGED <<config, baseEnv, authMode, env, tmpFiles, args, input,
                   parsed, probe, proc, ctxErr, stdout, stderr, exitCode,
                   runErr, parserRuns, result, returned, err>>

\* Execute lines 41-72: arguments, deadline context, command, environment
ExecuteStart ==
    /\ pc = "execute"
    /\ args' = buildArgs(config, config.Prompt)
    /\ ctxErr' = "nil"
    /\ \E tmpOk \in BOOLEAN, absOk \in BOOLEAN :
         /\ env' = buildEnv(config, baseEnv, tmpOk, absOk)
         /\ tmpFiles' = tmpFiles \o TmpWritten(config, tmpOk)
    /\ pc' = "run"
    /\ UNCHANGED costVars
    /\ UNCHANGED <<config, baseEnv, authMode, input, parsed, probe, stdinInput,
                   proc, stdout, stderr, exitCode, runErr, parserRuns, result,
                   returned, err>>

\* Execute line 75, cmd.Run: Start. A context that is already done makes
\* Start return its error; otherwise the subprocess starts or fails to.
CmdStart ==
    /\ pc = "run"
    /\ IF ctxErr = "DeadlineExceeded"
       THEN /\ proc' = "notstarted"
            /\ runErr' = "DeadlineExceeded"
            /\ pc' = "returned"
       ELSE \E started \in BOOLEAN :
              /\ proc' = IF started THEN "running" ELSE "notstarted"
              /\ runErr' = IF started THEN runErr ELSE "StartError"
              /\ pc' = IF started THEN "wait" ELSE "returned"
    /\ UNCHANGED costVars
    /\ UNCHANGED <<config, baseEnv, authMode, env, tmpFiles, args, input,
                   parsed, probe, stdinInput, ctxErr, stdout, stderr, exitCode,
                   parserRuns, result, returned, err>>

\* the subprocess prints to its stdout and stderr, captured in the buffers
SubprocessWrite ==
    /\ proc = "running"
    /\ stdout = <<>> /\ stderr = <<>>
    /\ \E out \in ExecStdouts, errOut \in ExecStderrs :
         /\ out # <<>> \/ errOut # <<>>
         /\ stdout' = out
         /\ stderr' = errOut
    /\ UNCHANGED costVars
    /\ UNCHANGED <<config, pc, baseEnv, authMode, env, tmpFiles, args, input,
                   parsed, probe, stdinInput, proc, ctxErr, exitCode, runErr,
                   parserRuns, result, returned, err>>

\* the subprocess ends on its own
SubprocessExit ==
    /\ proc = "running"
    /\ \E code \in ExitCodes : exitCode' = code
    /\ proc' = "exited"
    /\ UNCHANGED costVars
    /\ UNCHANGED <<config, pc, baseEnv, authMode, env, tmpFiles, args, input,
                   parsed, probe, stdinInput, ctxErr, stdout, stderr, runErr,
                   parserRuns, result, returned, err>>

\* the timer of context.WithTimeout (line 50) fires; exec.CommandContext
\* kills the subprocess if it is still running
DeadlineExpire ==
    /\ pc \in {"run", "wait", "returned", "parse"}
    /\ ctxErr = "nil"
    /\ ctxErr' = "DeadlineExceeded"
    /\ IF proc = "running"
       THEN proc' = "killed" /\ exitCode' = KilledExitCode
       ELSE UNCHANGED <<proc, exitCode>>
    /\ UNCHANGED costVars
    /\ UNCHANGED <<config, pc, baseEnv, authMode, env, tmpFiles, args, input,
                   parsed, probe, stdinInput, stdout, stderr, runErr,
                   parserRuns, result, returned, err>>

\* Execute line 75, cmd.Run: Wait returns once the subprocess has ended. A
\* non-zero or signalled end is an ExitError. After a zero exit Wait returns
\* nil, unless the deadline fired before Wait had collected the subprocess:
\* then the kill of exec.CommandContext may still have been delivered, and
\* Wait returns the context's error in place of nil (os/exec, Cmd.Cancel).
CmdWait ==
    /\ pc = "wait"
    /\ proc \in {"exited", "killed"}
    /\ IF proc = "exited" /\ exitCode = 0
       THEN IF ctxErr = "DeadlineExceeded"
            THEN runErr' \in {"nil", "DeadlineExceeded"}
            ELSE runErr' = "nil"
       ELSE runErr' = "ExitError"
    /\ pc' = "returned"
    /\ UNCHANGED costVars
    /\ UNCHANGED <<config, baseEnv, authMode, env, tmpFiles, args, input,
                   parsed, probe, stdinInput, proc, ctxErr, stdout, stderr,
                   exitCode, parserRuns, result, returned, err>>

\* Execute lines 77-100; on a return, Exec lines 61-64 pass the error on
HandleRunErr ==
    /\ pc = "returned"
    /\ LET a == AfterRun(runErr, ctxErr, stdout, stderr, exitCode) IN
         /\ result' = a.result
         /\ err' = a.err
         /\ pc' = a.next
    /\ UNCHANGED costVars
    /\ UNCHANGED <<config, baseEnv, authMode, env, tmpFiles, args, input,
                   parsed, probe, stdinInput, proc, ctxErr, stdout, stderr,
                   exitCode, runErr, parserRuns, returned>>

\* Execute lines 102-133; then Exec lines 61-69 pass the error on or display
ParseOutput ==
    /\ pc = "parse"
    /\ LET a == AfterParse(config.OutputFormat, result[1]) IN
         /\ parserRuns' = Append(parserRuns, a.fn)
         /\ returned' = a.returned
         /\ err' = a.err
    /\ pc' = "done"
    /\ UNCHANGED costVars
    /\ UNCHANGED <<config, baseEnv, authMode, env, tmpFiles, args, input,
                   parsed, probe, stdinInput, proc, ctxErr, stdout, stderr,
                   exitCode, runErr, result>>

Next ==
    \/ ValidateStep
    \/ CheckGeminiCLIStep
    \/ GitContextStep
    \/ ExecuteStart
    \/ CmdStart
    \/ SubprocessWrite
    \/ SubprocessExit
    \/ DeadlineExpire
    \/ CmdWait
    \/ HandleRunErr
    \/ ParseOutput

Spec == Init /\ [][Next]_vars

\* what the configured parser makes of the captured stdout
ParsedStdout == RunParser(config.OutputFormat, stdout)

\* C4: once the output has parsed, a Response with a non-nil Error makes
\* Execute fail with ErrCLIExecution carrying the error's type and message,
\* whatever the exit code and whether or not the Response text is empty.
C4_InBandErrorFails ==
    (/\ pc = "done"
     /\ parserRuns # <<>>
     /\ ParsedStdout.err = NilErr
     /\ ParsedStdout.resp # Nil
     /\ ParsedStdout.resp[1].Error # Nil)
        => /\ err.kind = "ErrCLIExecution"
           /\ err.detail.etype = ParsedStdout.resp[1].Error[1].Type
           /\ err.detail.emsg = ParsedStdout.resp[1].Error[1].Message
           /\ returned # Nil
           /\ returned[1].Response = ParsedStdout.resp

\* C4 witness: non-zero exit, non-empty Response text, in-band error
C4_Witness ==
    /\ pc = "done"
    /\ proc = "exited" /\ exitCode = 41
    /\ stdout = <<"D_errtext">>
    /\ returned # Nil
    /\ returned[1].Response[1].Response # <<>>
    /\ returned[1].Response[1].Error # Nil
    /\ err.kind = "ErrCLIExecution"
    /\ err.detail.etype = <<"AuthError">>

\* C12: in stream-json mode, when no line of the captured stdout parses to a
\* result or a non-delta assistant message (an empty stream and one of only
\* damaged lines included), ParseStreamJSON gives a nil Response and a nil
\* error and Execute returns success with result.Response nil; when some line
\* does, the Response is not nil.
C12_StreamNilResponse ==
    (pc = "done" /\ parserRuns = <<"ParseStreamJSON">>)
        => /\ ParseStreamJSON(stdout).err = NilErr
           /\ returned # Nil
           /\ IF HasFinalEvent(stdout)
              THEN /\ ParseStreamJSON(stdout).resp # Nil
                   /\ returned[1].Response # Nil
              ELSE /\ ParseStreamJSON(stdout).resp = Nil
                   /\ returned[1].Response = Nil
                   /\ err = NilErr

\* C12 witness: a stream of a user message and a delta fragment only
C12_Witness ==
    /\ pc = "done"
    /\ config.OutputFormat = "stream-json"
    /\ parserRuns = <<"ParseStreamJSON">>
    /\ stdout = <<"E_user", "\n", "E_delta">>
    /\ returned # Nil
    /\ returned[1].Response = Nil
    /\ err = NilErr

\* the subprocess ended on its own with a non-zero exit, or failed to run
EndedInFailure ==
    \/ proc = "exited" /\ exitCode # 0
    \/ proc = "notstarted" /\ runErr = "StartError"

\* the parser entry point the configured format selects
ConfiguredParser ==
    IF config.OutputFormat = "json" THEN "ParseJSON"
    ELSE IF config.OutputFormat = "stream-json" THEN "ParseStreamJSON"
    ELSE "ParseText"

\* what C5 says of a finished Execute: non-empty stdout has been parsed by
\* the configured parser; empty stdout gives ErrCLIExecution with the
\* captured stderr, a nil result and no parser run
NonZeroExitHandled ==
    IF stdout # <<>>
    THEN parserRuns = <<ConfiguredParser>>
    ELSE /\ err.kind = "ErrCLIExecution"
         /\ err.detail.stderr = stderr
         /\ returned = Nil
         /\ parserRuns = <<>>

\* C5: when the subprocess exits non-zero or fails to run, non-empty stdout
\* is parsed with the configured parser, and empty stdout makes Execute fail
\* with ErrCLIExecution carrying stderr, a nil result, no parser run.
C5_NonZeroExit ==
    (pc = "done" /\ EndedInFailure) => NonZeroExitHandled

\* the same, for the runs in which Execute did not report a timeout
NonZeroExitUnlessTimeout ==
    (pc = "done" /\ EndedInFailure /\ err.kind # "ErrTimeout") => NonZeroExitHandled

\* the deadline expired before the real invocation had finished: while the
\* subprocess was running, or before it could be started
DeadlineCameFirst ==
    \/ proc = "killed"
    \/ proc = "notstarted" /\ runErr = "DeadlineExceeded"

\* C6: a deadline that expires before the real invocation has finished makes
\* Execute fail with ErrTimeout whatever stdout holds: the subprocess is
\* ended, nothing is parsed and the result returned is nil.
C6_DeadlineTimeout ==
    /\ (proc = "killed" => ctxErr = "DeadlineExceeded")
    /\ (pc \in {"returned", "parse", "done"} => proc # "running")
    /\ (pc = "done" /\ DeadlineCameFirst)
          => /\ err = ErrTimeout
             /\ returned = Nil
             /\ parserRuns = <<>>

\* C6 witness: killed at the deadline after printing a parseable document
C6_Witness ==
    /\ pc = "done"
    /\ proc = "killed"
    /\ stdout = <<"D_hello">>
    /\ err = ErrTimeout
    /\ returned = Nil

\* the real invocation has been attempted
Invoked == pc \in {"wait", "returned", "parse"} \/ proc # "none" \/ runErr # "none"

\* C7: the real invocation is only ever attempted after a successful probe;
\* a failed probe ends the operation with ErrGeminiCLINotFound and nothing
\* of the real invocation has happened.
C7_ProbeBeforeInvocation ==
    /\ (Invoked => probe = "ok")
    /\ (probe = "fail" =>
          /\ pc = "done"
          /\ err = ErrGeminiCLINotFound
          /\ ~Invoked
          /\ args = <<>>
          /\ ctxErr = "none")

\* C7 witness: the probe failed and the operation ended with NotFound
C7_Witness ==
    /\ probe = "fail"
    /\ pc = "done"
    /\ err = ErrGeminiCLINotFound
    /\ proc = "none"

\* C17: Execute parses the captured stdout with exactly one parser, chosen by
\* OutputFormat alone (json: ParseJSON, stream-json: ParseStreamJSON, text:
\* ParseText); when that parser fails its error is returned and no other
\* parser is tried.
C17_OneParserByFormat ==
    /\ Len(parserRuns) <= 1
    /\ parserRuns # <<>> => parserRuns = <<ConfiguredParser>>
    /\ returned # Nil => Len(parserRuns) = 1
    /\ (pc = "done" /\ parserRuns # <<>>)
         => /\ config.OutputFormat = "json"
                => parserRuns[1] = "ParseJSON"
            /\ config.OutputFormat = "stream-json"
                => parserRuns[1] = "ParseStreamJSON"
            /\ config.OutputFormat = "text"
                => parserRuns[1] = "ParseText"
            /\ ParsedStdout.err # NilErr
                => /\ err = ParsedStdout.err
                   /\ returned # Nil
                   /\ returned[1].Response = Nil

\* C17 witness: json mode, stdout that is not JSON: ParseJSON fails and its
\* error is returned, although the text parser would have taken the output
C17_Witness ==
    /\ pc = "done"
    /\ config.OutputFormat = "json"
    /\ stdout = <<"x">>
    /\ parserRuns = <<"ParseJSON">>
    /\ err.kind = "ErrOutputParsing"
    /\ returned # Nil
    /\ returned[1].Response = Nil

\* C19: Validate fails with ErrPromptRequired exactly when Prompt is empty;
\* Exec with an empty prompt returns that error before the probe or the real
\* invocation is launched, so the real invocation only ever runs with a
\* non-empty prompt.
C19_EmptyPromptRejected ==
    /\ \A p \in {"", " ", "Review this code", "--yolo"} :
         LET c == [config EXCEPT !.Prompt = p] IN
         /\ (Validate(c) = "ErrPromptRequired") <=> (p = "")
         /\ (Validate(c) = "nil") <=> (p # "")
    /\ pc # "validate"
         => ((config.Prompt = "") <=> (pc = "done" /\ err = ErrPromptRequired))
    /\ config.Prompt = ""
         => /\ pc \in {"validate", "done"}
            /\ probe = "none"
            /\ ~Invoked
            /\ args = <<>>
    /\ (probe # "none" \/ Invoked) => config.Prompt # ""

\* C19 witness: an empty prompt, refused before anything was launched
C19_Witness ==
    /\ config.Prompt = ""
    /\ pc = "done"
    /\ err = ErrPromptRequired
    /\ probe = "none"
    /\ proc = "none"

\* some line of the captured stdout parses to an event of type error
HasErrorEvent(text) ==
    \E i \in 1..Len(EventLines(text)) :
        UnmarshalEvent(TrimSpace(EventLines(text)[i])).v.Type = "error"

\* the events ParseStreamJSON returns for the text hold an error event
ErrorEventListed(text) ==
    \E i \in 1..Len(ParseStreamJSON(text).events) :
        ParseStreamJSON(text).events[i].Type = "error"

\* in stream-json mode: error events are in the event list and not in the
\* Response, and Execute never fails with the in-band ErrCLIExecution
StreamErrorNotCopied ==
    /\ HasErrorEvent(stdout) => ErrorEventListed(stdout)
    /\ ParseStreamJSON(stdout).resp # Nil
         => ParseStreamJSON(stdout).resp[1].Error = Nil
    /\ (returned # Nil /\ returned[1].Response # Nil)
         => returned[1].Response[1].Error = Nil
    /\ err.kind = "ErrCLIExecution"
         => /\ parserRuns = <<>>
            /\ err.detail.etype = <<>> /\ err.detail.emsg = <<>>

\* a finished run whose subprocess exited with status 0 after printing a
\* stream that holds an error event
ZeroExitErrorStream ==
    /\ pc = "done"
    /\ proc = "exited" /\ exitCode = 0
    /\ HasErrorEvent(stdout)

\* C23: in stream-json mode the reconstructed Response never carries an
\* Error: error events are appended to the event list and never copied into
\* the Response, Execute never returns the in-band ErrCLIExecution, and a
\* zero-exit stream that holds an error event is reported as success.
C23_StreamErrorIsSuccess ==
    config.OutputFormat = "stream-json"
        => /\ StreamErrorNotCopied
           /\ ZeroExitErrorStream => err = NilErr /\ returned # Nil

\* what does hold of C23: all of it but the success of the zero-exit stream,
\* which is reported as success or, the deadline having fired, as a timeout
StreamErrorSuccessUnlessTimeout ==
    config.OutputFormat = "stream-json"
        => /\ StreamErrorNotCopied
           /\ ZeroExitErrorStream
                => \/ err = NilErr /\ returned # Nil
                   \/ err = ErrTimeout /\ ctxErr = "DeadlineExceeded"

\* a finished run whose subprocess exited on its own with a non-zero status
\* and non-empty stdout that parses without an in-band Error
NonZeroExitParseable ==
    /\ pc = "done"
    /\ proc = "exited" /\ exitCode # 0
    /\ stdout # <<>>
    /\ ParsedStdout.err = NilErr
    /\ ParsedStdout.resp = Nil \/ ParsedStdout.resp[1].Error = Nil

\* text mode takes every non-empty stdout, whitespace-only included
TextAlwaysParses ==
    (config.OutputFormat = "text" /\ stdout # <<>>)
        => /\ ParsedStdout.err = NilErr
           /\ ParsedStdout.resp # Nil
           /\ ParsedStdout.resp[1].Error = Nil

\* a result returned after a zero exit has ExitCode 0
ZeroExitCodeKept ==
    (returned # Nil /\ proc = "exited" /\ exitCode = 0)
        => returned[1].ExitCode = 0

\* C24: a non-zero exit does not by itself make Execute fail: with non-empty
\* stdout that parses without an in-band Error (always so in text mode)
\* Execute returns a nil error and a result whose ExitCode is the process's
\* exit code; ExitCode is 0 in every result returned after a zero exit.
C24_NonZeroExitSucceeds ==
    /\ TextAlwaysParses
    /\ ZeroExitCodeKept
    /\ NonZeroExitParseable
         => /\ err = NilErr
            /\ returned # Nil
            /\ returned[1].ExitCode = exitCode

\* what does hold of C24: the same, but for the runs in which the deadline
\* fired before line 84 and Execute reports a timeout
NonZeroExitSucceedsUnlessTimeout ==
    /\ TextAlwaysParses
    /\ ZeroExitCodeKept
    /\ NonZeroExitParseable
         => \/ /\ err = NilErr
               /\ returned # Nil
               /\ returned[1].ExitCode = exitCode
            \/ /\ err = ErrTimeout /\ ctxErr = "DeadlineExceeded"
               /\ returned = Nil

\* C25: in every interleaving of subprocess exit, deadline expiry and the
\* check of the deadline, Execute returns ErrTimeout only if the deadline
\* expired before the invocation had finished; a subprocess that ended on
\* its own with a non-zero exit is never reported as a timeout and its
\* captured output is not discarded.
C25_TimeoutOnlyWhenRunning ==
    /\ (pc = "done" /\ err = ErrTimeout) => DeadlineCameFirst
    /\ (pc = "done" /\ proc = "exited" /\ exitCode # 0)
         => /\ err # ErrTimeout
            /\ stdout # <<>> => parserRuns # <<>> /\ returned # Nil

\* what does hold of C25: ErrTimeout is returned only after the deadline has
\* fired, and always when it fired while the subprocess was running
TimeoutOnlyAfterDeadline ==
    /\ (pc = "done" /\ err = ErrTimeout)
         => ctxErr = "DeadlineExceeded" /\ returned = Nil
    /\ (pc = "done" /\ proc = "killed") => err = ErrTimeout

============================================================================
